---------------------------- MODULE Spec2Model ----------------------------
(***************************************************************************)
(* Video stream resource of open-event-server (app/api/video_stream.py):   *)
(* the guards check_same_event and check_event_access, the hooks of the    *)
(* list and detail resources, and the data-layer steps the resources run   *)
(* around them, over a store of events, rooms (microlocations) and video   *)
(* streams.                                                                *)
(*                                                                         *)
(* Spec      requests are served one at a time and the last exchange       *)
(*           (request, response, call trace) is kept in `last`.            *)
(* SpecConc  create requests overlap: the before_post hook and the insert  *)
(*           are separate steps, with up to MaxPending creates between;    *)
(*           no other request is served.                                   *)
(***************************************************************************)
EXTENDS Integers, Sequences, FiniteSets, Bags, TLC

\* ---- bounds of the model ------------------------------------------------
NumEvents == 2
NumRooms == 3
MaxStreams == 2
MaxPending == 2

\* ---- the store -----------------------------------------------------------
\* Python None / SQL NULL for an id-valued field; ids start at 1.
None == 0

Events == 1..NumEvents
\* Rows of the microlocation table, by id.
Rooms == 1..NumRooms
\* Room ids a payload can name: the rows, and one id that matches no row.
RoomIds == 1..(NumRooms + 1)

\* Microlocation.event_id: every room belongs to one event; it never changes here.
RoomEvent(r) == ((r - 1) % NumEvents) + 1

\* A row of the video stream table: its event_id and its rooms (the rooms whose
\* video_stream is this row). Rows are told apart by their content, not by id.
Rows == [event_id : {None} \cup Events, rooms : SUBSET Rooms]

\* A payload after deserialisation: 'rooms' (empty = key not given) and
\* 'event' (None = key not given).
Payloads == [rooms : SUBSET RoomIds, event : {None} \cup Events]

VARIABLES
    streams,   \* the video stream table: a bag of rows
    pending,   \* bag of create payloads that passed before_post, not yet inserted
    last       \* the exchange being served

vars == <<streams, pending, last>>

\* The bag of the one element x.
One(x) == SetToBag({x})

\* ---- results of a guard or hook ------------------------------------------
\* err: "none" or the exception raised; pointer: its source pointer;
\* by: the function that raised; trace: the functions entered, in order.
Returned(trace) == [err |-> "none", pointer |-> "", by |-> "", trace |-> trace]
Raised(err, pointer, by, trace) == [err |-> err, pointer |-> pointer, by |-> by, trace |-> trace]

\* ---- guards ---------------------------------------------------------------
\* check_event_access with the test of has_access inverted.
check_event_access_inverted(event, access, trace) ==
    LET t == Append(trace, "check_event_access") IN
    IF event = None
    THEN Returned(t)
    ELSE IF event \in access
         THEN Raised("ForbiddenError", "/data/relationships/rooms",
                     "check_event_access", Append(t, "has_access"))
         ELSE Returned(Append(t, "has_access"))

check_event_access(event, access, trace) ==
    LET t == Append(trace, "check_event_access") IN
    IF event = None
    THEN Returned(t)
    ELSE IF event \notin access
         THEN Raised("ForbiddenError", "/data/relationships/rooms",
                     "check_event_access", Append(t, "has_access"))
         ELSE Returned(Append(t, "has_access"))

RECURSIVE same_event_loop(_, _)
\* The for loop of check_same_event over the rooms still to visit: the set of
\* event ids collected, or a set of more than one id as soon as one appears.
same_event_loop(rooms, event_ids) ==
    IF rooms = {}
    THEN event_ids
    ELSE LET room == CHOOSE r \in rooms : \A q \in rooms : r <= q
             ids == event_ids \cup {RoomEvent(room)}
         IN  IF Cardinality(ids) > 1 THEN ids ELSE same_event_loop(rooms \ {room}, ids)

\* check_same_event that takes the first room's event and never compares.
check_same_event_first_room(room_ids, access, trace) ==
    LET t == Append(trace, "check_same_event")
        rooms == {r \in Rooms : r \in room_ids}
    IN  IF rooms = {}
        THEN Raised("KeyError", "", "check_same_event", t)
        ELSE check_event_access(RoomEvent(CHOOSE r \in rooms : \A q \in rooms : r <= q),
                                access, t)

\* check_same_event that checks access to the first room's event before the loop.
check_same_event_access_first(room_ids, access, trace) ==
    LET t == Append(trace, "check_same_event")
        rooms == {r \in Rooms : r \in room_ids}
        event_ids == same_event_loop(rooms, {})
        r0 == IF rooms = {}
              THEN Raised("KeyError", "", "check_same_event", t)
              ELSE check_event_access(RoomEvent(CHOOSE r \in rooms : \A q \in rooms : r <= q),
                                      access, t)
    IN  IF r0.err # "none" THEN r0
        ELSE IF Cardinality(event_ids) > 1
             THEN Raised("ForbiddenError", "/data/relationships/rooms",
                         "check_same_event", r0.trace)
             ELSE r0

check_same_event(room_ids, access, trace) ==
    LET t == Append(trace, "check_same_event")
        rooms == {r \in Rooms : r \in room_ids}
        event_ids == same_event_loop(rooms, {})
    IN  IF Cardinality(event_ids) > 1
        THEN Raised("ForbiddenError", "/data/relationships/rooms", "check_same_event", t)
        ELSE IF event_ids = {}
             THEN Raised("KeyError", "", "check_same_event", t)
             ELSE check_event_access(CHOOSE e \in event_ids : TRUE, access, t)

\* The exclusivity helper: exactly one of 'rooms', 'event' (at most one when
\* optional).
require_exclusive_relationship(data, optional, trace) ==
    LET t == Append(trace, "require_exclusive_relationship")
        given == (IF data.rooms # {} THEN 1 ELSE 0) + (IF data.event # None THEN 1 ELSE 0)
    IN  IF given > 1 \/ (~optional /\ given = 0)
        THEN Raised("UnprocessableEntityError", "", "require_exclusive_relationship", t)
        ELSE Returned(t)

\* ---- hooks of the list resource ------------------------------------------
\* before_post without the query for an existing stream of the event.
before_post_no_query(db, data, access) ==
    LET r0 == require_exclusive_relationship(data, FALSE, <<>>) IN
    IF r0.err # "none" THEN r0 ELSE
    LET r1 == IF data.rooms # {}
              THEN check_same_event(data.rooms, access, r0.trace)
              ELSE r0 IN
    IF r1.err # "none" THEN r1 ELSE
    check_event_access(data.event, access, r1.trace)

\* before_post with the exclusivity check after the guards.
before_post_guards_first(db, data, access) ==
    LET r1 == IF data.rooms # {}
              THEN check_same_event(data.rooms, access, <<>>)
              ELSE Returned(<<>>) IN
    IF r1.err # "none" THEN r1 ELSE
    LET r2 == check_event_access(data.event, access, r1.trace) IN
    IF r2.err # "none" THEN r2 ELSE
    LET r3 == IF data.event # None /\ \E row \in BagToSet(db) : row.event_id = data.event
              THEN Raised("ConflictError", "/data/relationships/event", "before_post",
                          Append(r2.trace, "video_exists"))
              ELSE r2 IN
    IF r3.err # "none" THEN r3 ELSE
    require_exclusive_relationship(data, FALSE, r3.trace)

before_post(db, data, access) ==
    LET r0 == require_exclusive_relationship(data, FALSE, <<>>) IN
    IF r0.err # "none" THEN r0 ELSE
    LET r1 == IF data.rooms # {}
              THEN check_same_event(data.rooms, access, r0.trace)
              ELSE r0 IN
    IF r1.err # "none" THEN r1 ELSE
    LET r2 == check_event_access(data.event, access, r1.trace) IN
    IF r2.err # "none" THEN r2 ELSE
    IF data.event = None THEN r2 ELSE
    LET t == Append(r2.trace, "video_exists") IN
    IF \E row \in BagToSet(db) : row.event_id = data.event
    THEN Raised("ConflictError", "/data/relationships/event", "before_post", t)
    ELSE Returned(t)

\* ---- hooks of the detail resource ----------------------------------------
\* after_get_object that never raises.
after_get_object_silent(stream, can_access, trace) ==
    Returned(Append(trace, "after_get_object"))

\* stream holds the fetched row, and is empty when no row was found.
after_get_object(stream, can_access, trace) ==
    LET t == Append(trace, "after_get_object") IN
    IF stream # {} /\ ~can_access
    THEN Raised("ObjectNotFound", "", "after_get_object", t)
    ELSE Returned(t)

before_update_object(obj, data, access, trace) ==
    LET r0 == require_exclusive_relationship(data, TRUE, trace) IN
    IF r0.err # "none" THEN r0 ELSE
    LET r1 == check_event_access(obj.event_id, access, r0.trace) IN
    IF r1.err # "none" THEN r1 ELSE
    LET r2 == check_event_access(data.event, access, r1.trace) IN
    IF r2.err # "none" THEN r2 ELSE
    LET room_ids == data.rooms \cup obj.rooms IN
    IF room_ids # {} THEN check_same_event(room_ids, access, r2.trace) ELSE r2

before_delete_object(obj, access, trace) ==
    LET r1 == check_event_access(obj.event_id, access, trace) IN
    IF r1.err # "none" THEN r1 ELSE
    LET room_ids == obj.rooms IN
    IF room_ids # {} THEN check_same_event(room_ids, access, r1.trace) ELSE r1

\* ---- data layer (session, model VideoStream) -----------------------------
\* Fetch of the detail resource: the row found (stream), then after_get_object;
\* a missing row is Not Found once the hook has returned.
get_object(stream, can_access) ==
    LET r == after_get_object(stream, can_access, <<"get_object">>) IN
    IF r.err = "none" /\ stream = {}
    THEN Raised("ObjectNotFound", "", "get_object", r.trace)
    ELSE r

\* What a request can address: a row of the table, or an id that matches none.
Targets == {{}} \cup {{row} : row \in BagToSet(streams)}

\* Table db after the rooms taken have been pointed at another row: every row
\* loses those of its rooms.
WithoutRooms(db, taken) ==
    LET Strip(row) == [row EXCEPT !.rooms = @ \ taken] IN
    [new \in {Strip(row) : row \in BagToSet(db)} |->
        BagCardinality([row \in {x \in BagToSet(db) : Strip(x) = new} |-> db[row]])]

\* Insert of a create payload: a row with the payload's event, and the named
\* rooms pointed at it. A room id that matches no row fails the insert.
create_object(db, data) ==
    IF ~(data.rooms \subseteq Rooms) THEN db ELSE
    WithoutRooms(db, data.rooms) (+) One([event_id |-> data.event, rooms |-> data.rooms])

\* The row obj as a payload leaves it: the keys given replace the row's values.
Updated(obj, data) ==
    [event_id |-> IF data.event # None THEN data.event ELSE obj.event_id,
     rooms |-> IF data.rooms # {} THEN data.rooms ELSE obj.rooms]

\* Update of row obj with a payload. A room id that matches no row fails it.
update_object(db, obj, data) ==
    IF ~(data.rooms \subseteq Rooms) THEN db ELSE
    WithoutRooms(db (-) One(obj), data.rooms) (+) One(Updated(obj, data))

\* Delete of row obj: its rooms are left without a stream.
delete_object(db, obj) == db (-) One(obj)

\* ---- exchanges ------------------------------------------------------------
NoData == [rooms |-> {}, event |-> None]

\* obj: the row addressed (empty: none, or an id that matches no row);
\* err, pointer, by, trace: the result of the guards and hooks of the request;
\* returned: the row in the response body (empty: none, as when the data layer
\* fails after the hooks passed).
Exchange(op, obj, data, access, can_access, r, returned) ==
    [op |-> op, obj |-> obj, data |-> data, access |-> access, can_access |-> can_access,
     err |-> r.err, pointer |-> r.pointer, by |-> r.by, trace |-> r.trace,
     returned |-> returned]

NoExchange == Exchange("", {}, NoData, {}, FALSE, Returned(<<>>), {})

Init ==
    /\ streams = EmptyBag
    /\ pending = EmptyBag
    /\ last = NoExchange

\* The end of a request: the table as the request leaves it, and the exchange.
Finish(db, exchange) ==
    /\ streams' = db
    /\ last' = exchange
    /\ UNCHANGED pending

\* ---- requests served one at a time ---------------------------------------
\* POST: before_post, then the insert.
Post ==
    /\ last = NoExchange
    /\ \E data \in Payloads, access \in SUBSET Events :
        LET r == before_post(streams, data, access)
            inserts == r.err = "none" /\ data.rooms \subseteq Rooms
        IN  /\ r.err = "none" => BagCardinality(streams) < MaxStreams
            /\ Finish(IF r.err = "none" THEN create_object(streams, data) ELSE streams,
                      Exchange("post", {}, data, access, FALSE, r,
                               IF inserts
                               THEN {[event_id |-> data.event, rooms |-> data.rooms]}
                               ELSE {}))

\* PATCH: fetch, before_update_object, then the update.
Patch ==
    /\ last = NoExchange
    /\ \E stream \in Targets, can_access \in BOOLEAN :
        LET g == get_object(stream, can_access) IN
        IF g.err # "none"
        THEN Finish(streams, Exchange("patch", stream, NoData, {}, can_access, g, {}))
        ELSE \E obj \in stream, data \in Payloads, access \in SUBSET Events :
                LET r == before_update_object(obj, data, access, g.trace)
                    updates == r.err = "none" /\ data.rooms \subseteq Rooms
                IN  Finish(IF r.err = "none" THEN update_object(streams, obj, data)
                           ELSE streams,
                           Exchange("patch", stream, data, access, can_access, r,
                                    IF updates THEN {Updated(obj, data)} ELSE {}))

\* DELETE: fetch, before_delete_object, then the delete.
Delete ==
    /\ last = NoExchange
    /\ \E stream \in Targets, can_access \in BOOLEAN :
        LET g == get_object(stream, can_access) IN
        IF g.err # "none"
        THEN Finish(streams, Exchange("delete", stream, NoData, {}, can_access, g, {}))
        ELSE \E obj \in stream, access \in SUBSET Events :
                LET r == before_delete_object(obj, access, g.trace) IN
                Finish(IF r.err = "none" THEN delete_object(streams, obj) ELSE streams,
                       Exchange("delete", stream, NoData, access, can_access, r, {}))

\* GET of one stream: the fetch alone.
Get ==
    /\ last = NoExchange
    /\ \E stream \in Targets, can_access \in BOOLEAN :
        LET g == get_object(stream, can_access) IN
        Finish(streams, Exchange("get", stream, NoData, {}, can_access, g,
                                 IF g.err = "none" THEN stream ELSE {}))

\* The guards called on their own.
CallCheckSameEvent ==
    /\ last = NoExchange
    /\ \E room_ids \in SUBSET RoomIds, access \in SUBSET Events :
        Finish(streams,
               Exchange("check_same_event", {}, [rooms |-> room_ids, event |-> None],
                        access, FALSE, check_same_event(room_ids, access, <<>>), {}))

CallCheckEventAccess ==
    /\ last = NoExchange
    /\ \E event \in {None} \cup Events, access \in SUBSET Events :
        Finish(streams,
               Exchange("check_event_access", {}, [rooms |-> {}, event |-> event],
                        access, FALSE, check_event_access(event, access, <<>>), {}))

\* The response is out; the next request can be served.
Respond ==
    /\ last # NoExchange
    /\ last' = NoExchange
    /\ UNCHANGED <<streams, pending>>

Next ==
    \/ Post
    \/ Patch
    \/ Delete
    \/ Get
    \/ CallCheckSameEvent
    \/ CallCheckEventAccess
    \/ Respond

Spec == Init /\ [][Next]_vars

\* ---- overlapping create requests -----------------------------------------
\* before_post of one create request; a request that passed waits for its insert.
PostCheck ==
    /\ BagCardinality(pending) < MaxPending
    /\ \E data \in Payloads, access \in SUBSET Events :
        /\ before_post(streams, data, access).err = "none"
        /\ pending' = pending (+) One(data)
        /\ UNCHANGED <<streams, last>>

\* PostInsert over a table with a unique event_id: a duplicate is refused.
PostInsert_unique ==
    \E data \in BagToSet(pending) :
        /\ BagCardinality(streams) < MaxStreams
        /\ streams' = IF data.event # None
                         /\ \E row \in BagToSet(streams) : row.event_id = data.event
                      THEN streams
                      ELSE create_object(streams, data)
        /\ pending' = pending (-) One(data)
        /\ UNCHANGED last

\* The insert of a create request that passed before_post.
PostInsert ==
    \E data \in BagToSet(pending) :
        /\ BagCardinality(streams) < MaxStreams
        /\ streams' = create_object(streams, data)
        /\ pending' = pending (-) One(data)
        /\ UNCHANGED last

NextConc ==
    \/ PostCheck
    \/ PostInsert

SpecConc == Init /\ [][NextConc]_vars

TypeOK ==
    /\ IsABag(streams)
    /\ BagToSet(streams) \subseteq Rows
    /\ BagCardinality(streams) <= MaxStreams
    /\ \A x, y \in BagToSet(streams) : x # y => x.rooms \cap y.rooms = {}
    /\ \A x \in BagToSet(streams) : x.rooms # {} => streams[x] = 1
    /\ BagCardinality(pending) <= MaxPending

\* ---- properties -----------------------------------------------------------
\* The number of streams of event e in table db.
StreamsOf(db, e) ==
    BagCardinality([row \in {x \in BagToSet(db) : x.event_id = e} |-> db[row]])

\* The events of the existing rooms among room_ids.
EventsOfRooms(room_ids) == {RoomEvent(r) : r \in room_ids \cap Rooms}

\* The step is the serving of a request op.
Served(op) == last = NoExchange /\ last'.op = op

InTrace(name) == \E i \in DOMAIN last.trace : last.trace[i] = name

\* C1: every event has at most one video stream, in every state that create,
\* update and delete requests reach.
C1_OneStreamPerEvent ==
    \A e \in Events : StreamsOf(streams, e) <= 1

\* C2: a create naming only event E, by a coorganizer of E, fails with
\* ConflictError (pointer /data/relationships/event) and adds nothing when E
\* has a stream, and passes before_post when E has none.
C2_CreateForEvent ==
    [][(/\ Served("post")
        /\ last'.data.rooms = {}
        /\ last'.data.event \in last'.access)
       => IF StreamsOf(streams, last'.data.event) > 0
          THEN /\ last'.err = "ConflictError"
               /\ last'.pointer = "/data/relationships/event"
               /\ streams' = streams
          ELSE last'.err = "none"]_vars

C2_Witness ==
    /\ last.op = "post"
    /\ last.data.rooms = {}
    /\ last.data.event \in last.access
    /\ last.err = "ConflictError"

\* C3: check_same_event over rooms of more than one event fails with
\* ForbiddenError (pointer /data/relationships/rooms) whatever the requester's
\* access, and never enters check_event_access.
C3_RoomsOfSeveralEvents ==
    (last.op = "check_same_event" /\ Cardinality(EventsOfRooms(last.data.rooms)) > 1)
    => /\ last.err = "ForbiddenError"
       /\ last.pointer = "/data/relationships/rooms"
       /\ last.by = "check_same_event"
       /\ ~InTrace("check_event_access")

C3_Witness ==
    /\ last.op = "check_same_event"
    /\ Cardinality(EventsOfRooms(last.data.rooms)) > 1
    /\ last.access = Events
    /\ last.err = "ForbiddenError"

\* C4: check_same_event over rooms that all belong to one event E fails with
\* ForbiddenError exactly when the requester is not coorganizer of E, and
\* returns without error otherwise.
C4_RoomsOfOneEvent ==
    \A e \in Events :
        (last.op = "check_same_event" /\ EventsOfRooms(last.data.rooms) = {e})
        => /\ last.err = "ForbiddenError" <=> e \notin last.access
           /\ e \in last.access => last.err = "none"

C4_Witness ==
    /\ last.op = "check_same_event"
    /\ Cardinality(last.data.rooms \cap Rooms) > 1
    /\ Cardinality(EventsOfRooms(last.data.rooms)) = 1
    /\ last.err = "none"

\* C5: a fetch of an existing stream the requester cannot access is answered
\* ObjectNotFound by after_get_object, the answer a missing stream gets, and
\* returns no stream; after_get_object raises nothing when the requester can
\* access the stream or no stream was found.
C5_HiddenStreamNotFound ==
    last.op = "get"
    => LET found == \E row \in last.obj : BagIn(row, streams) IN
       /\ (found /\ ~last.can_access)
          => /\ last.err = "ObjectNotFound"
             /\ last.by = "after_get_object"
             /\ last.returned = {}
       /\ ~found
          => /\ last.err = "ObjectNotFound"
             /\ last.by # "after_get_object"
             /\ last.returned = {}
       /\ (found /\ last.can_access)
          => /\ last.err = "none"
             /\ last.returned = last.obj

C5_Witness ==
    /\ last.op = "get"
    /\ \E row \in last.obj : BagIn(row, streams)
    /\ ~last.can_access
    /\ last.err = "ObjectNotFound"

\* C6: the rooms of any one video stream all belong to the same event.
C6_RoomsOfStreamShareEvent ==
    \A row \in BagToSet(streams) :
        \A r1, r2 \in row.rooms : RoomEvent(r1) = RoomEvent(r2)

\* A stream holds two rooms after an update that gave it rooms.
C6_Witness ==
    /\ last.op = "patch"
    /\ last.err = "none"
    /\ last.data.rooms # {}
    /\ \E row \in last.returned : BagIn(row, streams) /\ Cardinality(row.rooms) > 1

\* C7: a create whose payload gives both 'rooms' and 'event', or neither, is
\* rejected by the exclusivity check before any other guard runs and creates
\* nothing; a payload with exactly one of them reaches the guards.
C7_ExclusiveRelationship ==
    [][Served("post")
       => IF (last'.data.rooms # {}) <=> (last'.data.event # None)
          THEN /\ last'.err = "UnprocessableEntityError"
               /\ last'.by = "require_exclusive_relationship"
               /\ last'.trace = <<"require_exclusive_relationship">>
               /\ streams' = streams
          ELSE /\ last'.by # "require_exclusive_relationship"
               /\ Len(last'.trace) > 1]_vars

\* Both given, by a requester without access to the event named.
C7_Witness ==
    /\ last.op = "post"
    /\ last.data.rooms # {}
    /\ last.data.event # None
    /\ last.data.event \notin last.access
    /\ last.err = "UnprocessableEntityError"

\* C8: check_same_event returns without error, and without asking has_access,
\* when the room list is empty or none of its ids matches a room.
C8_NoRoomsNoOp ==
    (last.op = "check_same_event" /\ last.data.rooms \cap Rooms = {})
    => /\ last.err = "none"
       /\ ~InTrace("has_access")

\* C9: before_post looks at the inserted rows only, and the insert of a create
\* that passed it is not guarded: it adds a stream of the payload's event
\* whatever streams that event has by then.
C9_CheckThenInsert ==
    [][\A data \in BagToSet(pending) \cup BagToSet(pending') :
        /\ (data.event # None /\ pending' = pending (+) One(data))
           => /\ StreamsOf(streams, data.event) = 0
              /\ streams' = streams
        /\ (data.event # None /\ pending' = pending (-) One(data))
           => StreamsOf(streams', data.event) = StreamsOf(streams, data.event) + 1]_vars

\* Two creates for one event passed before_post before either inserted, and
\* both inserted.
C9_Witness ==
    \E e \in Events : StreamsOf(streams, e) > 1

\* C10: an update with at most one of 'rooms', 'event' passes
\* before_update_object only if the requester is coorganizer of the stream's
\* event and of the event given, and the rooms given and the stream's rooms lie
\* in one event of the requester's; otherwise it fails with ForbiddenError and
\* leaves the stream as it was.
C10_UpdateGuards ==
    [][\A obj \in last'.obj :
        (/\ Served("patch")
         /\ last'.can_access
         /\ ~(last'.data.rooms # {} /\ last'.data.event # None))
        => LET data == last'.data
               access == last'.access
               room_ids == data.rooms \cup obj.rooms
               allowed ==
                   /\ obj.event_id # None => obj.event_id \in access
                   /\ data.event # None => data.event \in access
                   /\ room_ids # {}
                      => \E e \in access : EventsOfRooms(room_ids) = {e}
           IN  /\ last'.err = "none" => allowed
               /\ ~allowed => last'.err = "ForbiddenError" /\ streams' = streams]_vars

=============================================================================
